---- MODULE Spec2Model ----
(***************************************************************************)
(* Model of the IBM i debugger tree view (src/src/views/debugView.ts):     *)
(* the DebugBrowser tree data provider, the DebugJobItem nodes it builds   *)
(* from the remote jobs and the certificate pair, the lifecycle commands   *)
(* and the lazy tooltip enrichment.                                        *)
(*                                                                         *)
(* Optional values (TypeScript `T | undefined`) are sequences of length    *)
(* at most one: <<>> is undefined, <<v>> is the value v.                   *)
(***************************************************************************)
EXTENDS Naturals, Sequences, FiniteSets, TLC

\* ------------------------------------------------------------------ bounds
MaxItems == 4        \* tree item objects alive at the same time
MaxPending == 1      \* change events fired and not yet handled by the view
MaxHandlers == 1     \* updateDebugBrowser runs in flight
MaxResolves == 2     \* resolveTreeItem calls in flight
MaxChanges == 1      \* changes of the connection and the remote state
MaxStartups == 2     \* ComponentManager.startup calls

\* --------------------------------------------------------------- constants
title == "IBM i debugger"

None == <<>>
Some(v) == <<v>>

\* Texts a certificate read can return; "" is an empty read.
RemoteTexts == {"", "X"}
LocalTexts == {"", "X", "Y"}

\* JavaScript truthiness of an optional string: undefined and "" are falsy.
Falsy(s) == s = None \/ s = Some("")

VARIABLES
  conn,          \* instance.getConnection() is defined
  secureDebug,   \* connection.config.debugIsSecure
  remoteCert,    \* remote certificate file: None, or Some(text)
  localCert,     \* local client certificate file: None, or Some(text)
  serverJob,     \* the debug server job is active on the remote host
  serviceJob,    \* the debug service job is active on the remote host
  heap,          \* tree item objects: id -> DebugJobItem
  roots,         \* ids of the root items the tree view presents
  pending,       \* events fired on _emitter, not yet handled by the view
  gri,           \* the running getRootItems call
  lastReturn,    \* how the last getRootItems call ended, and with which items
  upd,           \* updateDebugBrowser runs in flight
  header,        \* debugTreeViewer.title / .description
  resolves,      \* resolveTreeItem calls in flight
  cmd,           \* the lifecycle command being run
  calls,         \* start()/stop() invocations and results of that command
  dirty,         \* what changed since a refresh was requested for it: the
                 \* remote state of a node, or "command" for a finished
                 \* lifecycle command
  changes,       \* changes of the connection and the remote state so far
  manager,       \* the ComponentManager: its GetNewLibl field
  components,    \* the component objects startup created, in creation order
  lastGet        \* how the last ComponentManager.get call ended

env == <<conn, secureDebug, remoteCert, localCert, serverJob, serviceJob,
         changes>>
view == <<heap, roots, pending, gri, lastReturn>>
vars == <<conn, secureDebug, remoteCert, localCert, serverJob, serviceJob,
          heap, roots, pending, gri, lastReturn, upd, header, resolves,
          cmd, calls, dirty, changes, manager, components, lastGet>>
registry == <<manager, components, lastGet>>

Kinds == {"server", "service"}

\* The DebugJob a job lookup returns for an active job.
DebugJobOf(kind) ==
  IF kind = "server" THEN [name |-> "QB5SRV", ports |-> <<8005>>]
  ELSE [name |-> "QB5SVC", ports |-> <<8001, 8002>>]

\* ------------------------------------------------------------ DebugJobItem
\* certificates && !certificates.remoteCertificate
CantRun(certificates) ==
  certificates # None /\ Falsy(certificates[1].remoteCertificate)

\* Variant: the running flag taken from the job alone.
RunningFromJobAlone(debugJob, certificates) ==
  debugJob # None

\* !cantRun && debugJob !== undefined
Running(debugJob, certificates) ==
  ~CantRun(certificates) /\ debugJob # None

\* The `problem` the constructor derives (an optional CertificateIssue).
Problem(certificates) ==
  IF certificates = None THEN None
  ELSE LET c == certificates[1] IN
    IF Falsy(c.remoteCertificate)
      THEN Some([context |-> "noremote",
                 label |-> "remote.certificate.not.found",
                 detail |-> Some("remote.certificate.not.found.detail")])
    ELSE IF c.secureDebug
      THEN IF Falsy(c.localCertificate)
             THEN Some([context |-> "nolocal",
                        label |-> "local.certificate.not.found",
                        detail |-> None])
           ELSE IF c.remoteCertificate # c.localCertificate
             THEN Some([context |-> "dontmatch",
                        label |-> "local.dont.match.remote",
                        detail |-> None])
           ELSE None
    ELSE None

\* Variant: the icon and the colour chosen by the running flag first, the
\* problem only for an item that is not running.
DebugJobItemRunningFirst(type, debugJob, certificates) ==
  LET problem == Problem(certificates)
      cantRun == CantRun(certificates)
      running == Running(debugJob, certificates)
  IN [type |-> type,
      debugJob |-> debugJob,
      certificates |-> certificates,
      problem |-> problem,
      state |-> IF problem # None THEN "Expanded" ELSE "None",
      icon |-> IF running THEN "pass"
               ELSE IF problem # None THEN "warning" ELSE "error",
      color |-> IF running THEN "testing.iconPassed"
                ELSE IF problem # None /\ ~cantRun THEN "testing.iconQueued"
                ELSE "testing.iconFailed",
      contextValue |-> ("debugJob_" \o type) \o
                       (IF cantRun THEN ""
                        ELSE IF running THEN "_on" ELSE "_off"),
      description |-> IF running THEN debugJob[1].name ELSE "offline",
      tooltip |-> IF running THEN None ELSE Some(<<>>),
      activeJobCalls |-> 0,
      jvmCalls |-> 0,
      activeJob |-> "unread",
      askedAgain |-> FALSE]

\* new DebugJobItem(type, label, start, stop, debugJob, certificates).
\* `certificates` is kept as the record of the argument the item was built
\* from; activeJobCalls/jvmCalls count the enrichment queries made for this
\* object, activeJob records what its readActiveJob query returned and
\* askedAgain that resolveTreeItem was called on it again after that query
\* was made.
DebugJobItem(type, debugJob, certificates) ==
  LET problem == Problem(certificates)
      cantRun == CantRun(certificates)
      running == Running(debugJob, certificates)
  IN [type |-> type,
      debugJob |-> debugJob,
      certificates |-> certificates,
      problem |-> problem,
      state |-> IF problem # None THEN "Expanded" ELSE "None",
      icon |-> IF problem # None THEN "warning"
               ELSE IF running THEN "pass" ELSE "error",
      color |-> IF problem # None
                  THEN (IF cantRun THEN "testing.iconFailed"
                        ELSE "testing.iconQueued")
                  ELSE (IF running THEN "testing.iconPassed"
                        ELSE "testing.iconFailed"),
      contextValue |-> ("debugJob_" \o type) \o
                       (IF cantRun THEN ""
                        ELSE IF running THEN "_on" ELSE "_off"),
      description |-> IF running THEN debugJob[1].name ELSE "offline",
      tooltip |-> IF running THEN None ELSE Some(<<>>),
      activeJobCalls |-> 0,
      jvmCalls |-> 0,
      activeJob |-> "unread",
      askedAgain |-> FALSE]

\* new CertificateIssueItem(issue)
CertificateIssueItem(issue) ==
  [label |-> issue.label,
   description |-> issue.detail,
   tooltip |-> IF issue.detail = None THEN "" ELSE issue.detail[1],
   contextValue |-> "certificateIssue_" \o issue.context]

\* Variant: getChildren() that never reports the stored problem.
ItemGetChildrenWithoutIssue(item) ==
  None

\* DebugJobItem.getChildren(): one issue item, or undefined.
ItemGetChildren(item) ==
  IF item.problem # None THEN Some(<<CertificateIssueItem(item.problem[1])>>)
  ELSE None

\* -------------------------------------------------------------- the heap
Ids == 1..MaxItems

Range(seq) == {seq[i] : i \in DOMAIN seq}

MinOf(S) == CHOOSE x \in S : \A y \in S : x <= y

\* Objects still referenced by the view, a resolveTreeItem call, the
\* command being run or a fired event; the others are garbage.
Live(rts, res, c, pend) ==
  Range(rts) \cup {res[i].element : i \in DOMAIN res}
  \cup (IF c = None THEN {} ELSE {c[1].item})
  \cup {p[1] : p \in {q \in Range(pend) : q # None}}

Collect(h, rts, res, c, pend) ==
  LET live == Live(rts, res, c, pend) \cap DOMAIN h
  IN [i \in live |-> h[i]]

\* ------------------------------------------------------------------- Init
NoCertificates ==
  [secureDebug |-> FALSE, remoteCertificate |-> None, localCertificate |-> None]

\* A getChildren call is about to return for `parent`: does it repeat a
\* whole refresh, the last return being one of a root call that started
\* after the latest change of the remote state?
Repeats(parent, last) ==
  /\ parent = None
  /\ last.status = "returned"
  /\ last.parent = None
  /\ last.since = changes

\* No getRootItems call in flight.  `parent` is the element getChildren was
\* called with (None for the root call) and `since` the number of changes
\* of the remote state the call started after; both are kept for the
\* properties only, as is `repeat` of the last return.
GriIdle ==
  [pc |-> "idle", certificates |-> NoCertificates, server |-> None,
   parent |-> None, since |-> 0]

Init ==
  /\ conn \in BOOLEAN
  /\ secureDebug \in BOOLEAN
  /\ remoteCert \in {None} \cup {Some(x) : x \in RemoteTexts}
  /\ localCert \in {None} \cup {Some(x) : x \in LocalTexts}
  /\ serverJob \in BOOLEAN
  /\ serviceJob \in BOOLEAN
  /\ heap = << >>
  /\ roots = << >>
  /\ pending = <<None>>
  /\ gri = GriIdle
  /\ lastReturn = [status |-> "none", items |-> << >>, parent |-> None,
                   since |-> 0, repeat |-> FALSE]
  /\ upd = << >>
  /\ header = [title |-> title, description |-> ""]
  /\ resolves = << >>
  /\ cmd = None
  /\ calls = << >>
  /\ dirty = {}
  /\ changes = 0
  /\ manager = [GetNewLibl |-> None]
  /\ components = << >>
  /\ lastGet = [outcome |-> "none", component |-> None, state |-> None]

\* ------------------------------------------------- DebugBrowser.refresh()
\* this._emitter.fire(item): the payload is None for fire(undefined) and
\* Some(id) for an item.
Fire(payload) ==
  /\ Len(pending) < MaxPending
  /\ pending' = Append(pending, payload)

\* What a refresh request leaves waiting for a refresh: nothing when it is
\* for the whole tree, what does not concern the item when it is for one.
Requested(payload, d) ==
  IF payload = None THEN {}
  ELSE (d \ {heap[payload[1]].type})
       \ (IF cmd # None /\ cmd[1].item = payload[1] THEN {"command"} ELSE {})

\* --------------------------------------------------- updateDebugBrowser()
version == "2.0.1"

\* A "connected"/"disconnected" event or the refresh command runs the
\* handler up to its first await.
UpdRun(connection, d) ==
  IF connection
    THEN /\ Len(upd) < MaxHandlers
         /\ upd' = Append(upd, "details")
         /\ dirty' = d
         /\ UNCHANGED <<header, pending>>
    ELSE /\ header' = [title |-> title, description |-> ""]
         /\ Fire(None)
         /\ dirty' = Requested(None, d)
         /\ UNCHANGED upd

RemoveAt(seq, i) == SubSeq(seq, 1, i - 1) \o SubSeq(seq, i + 1, Len(seq))

\* getDebugServiceDetails() resolved: the title is set, isDebugEngineRunning
\* is called.
UpdDetails(i) ==
  /\ i \in DOMAIN upd
  /\ upd[i] = "details"
  /\ header' = [header EXCEPT !.title = (title \o " ") \o version]
  /\ upd' = [upd EXCEPT ![i] = "engine"]
  /\ UNCHANGED <<env, view, resolves, cmd, calls, dirty>>
  /\ UNCHANGED registry

\* isDebugEngineRunning() resolved (true iff the server job is active):
\* the description is set and the tree is refreshed.
UpdEngine(i) ==
  /\ i \in DOMAIN upd
  /\ upd[i] = "engine"
  /\ header' = [header EXCEPT !.description =
                   IF serverJob THEN "online" ELSE "offline"]
  /\ Fire(None)
  /\ dirty' = Requested(None, dirty)
  /\ upd' = RemoveAt(upd, i)
  /\ UNCHANGED <<env, heap, roots, gri, lastReturn, resolves, cmd, calls>>
  /\ UNCHANGED registry

\* The code-for-ibmi.debug.refresh command.
RefreshCommand ==
  /\ UpdRun(conn, dirty)
  /\ UNCHANGED <<env, heap, roots, gri, lastReturn, resolves, cmd, calls>>
  /\ UNCHANGED registry

\* The code-for-ibmi.debug.refresh.item command: debugBrowser.refresh(item).
RefreshItemCommand(id) ==
  /\ id \in Range(roots)
  /\ Fire(Some(id))
  /\ dirty' = Requested(Some(id), dirty)
  /\ UNCHANGED <<env, heap, roots, gri, lastReturn, upd, header, resolves,
                 cmd, calls>>
  /\ UNCHANGED registry

\* ------------------------------------------------------------ environment
\* The connection is made or lost; the "connected"/"disconnected" event
\* runs updateDebugBrowser.
Connected ==
  /\ changes < MaxChanges
  /\ changes' = changes + 1
  /\ ~conn
  /\ conn' = TRUE
  /\ UpdRun(TRUE, Kinds)
  /\ UNCHANGED <<secureDebug, remoteCert, localCert, serverJob, serviceJob,
                 heap, roots, gri, lastReturn, resolves, cmd, calls>>
  /\ UNCHANGED registry

Disconnected ==
  /\ changes < MaxChanges
  /\ changes' = changes + 1
  /\ conn
  /\ conn' = FALSE
  /\ UpdRun(FALSE, Kinds)
  /\ UNCHANGED <<secureDebug, remoteCert, localCert, serverJob, serviceJob,
                 heap, roots, gri, lastReturn, resolves, cmd, calls>>
  /\ UNCHANGED registry

\* The debugIsSecure setting, a certificate file or a remote job changes.
SetSecureDebug ==
  /\ changes < MaxChanges
  /\ changes' = changes + 1
  /\ secureDebug' = ~secureDebug
  /\ dirty' = dirty \cup {"service"}
  /\ UNCHANGED <<conn, remoteCert, localCert, serverJob, serviceJob, view,
                 upd, header, resolves, cmd, calls>>
  /\ UNCHANGED registry

RemoteCertChanges(c) ==
  /\ changes < MaxChanges
  /\ changes' = changes + 1
  /\ c # remoteCert
  /\ remoteCert' = c
  /\ dirty' = dirty \cup {"service"}
  /\ UNCHANGED <<conn, secureDebug, localCert, serverJob, serviceJob, view,
                 upd, header, resolves, cmd, calls>>
  /\ UNCHANGED registry

LocalCertChanges(c) ==
  /\ changes < MaxChanges
  /\ changes' = changes + 1
  /\ c # localCert
  /\ localCert' = c
  /\ dirty' = dirty \cup {"service"}
  /\ UNCHANGED <<conn, secureDebug, remoteCert, serverJob, serviceJob, view,
                 upd, header, resolves, cmd, calls>>
  /\ UNCHANGED registry

ServerJobChanges ==
  /\ changes < MaxChanges
  /\ changes' = changes + 1
  /\ serverJob' = ~serverJob
  /\ dirty' = dirty \cup {"server"}
  /\ UNCHANGED <<conn, secureDebug, remoteCert, localCert, serviceJob, view,
                 upd, header, resolves, cmd, calls>>
  /\ UNCHANGED registry

ServiceJobChanges ==
  /\ changes < MaxChanges
  /\ changes' = changes + 1
  /\ serviceJob' = ~serviceJob
  /\ dirty' = dirty \cup {"service"}
  /\ UNCHANGED <<conn, secureDebug, remoteCert, localCert, serverJob, view,
                 upd, header, resolves, cmd, calls>>
  /\ UNCHANGED registry

\* ---------------------------------------------------------- getRootItems
\* readRemoteCertificate(connection): the text of the remote certificate;
\* a read that finds nothing yields the empty text.
ReadRemoteCertificate == IF remoteCert = None THEN "" ELSE remoteCert[1]

\* getDebugServerJob() / getDebugServiceJob()
GetDebugJob(kind) ==
  IF (IF kind = "server" THEN serverJob ELSE serviceJob)
    THEN Some(DebugJobOf(kind)) ELSE None

\* getRootItems() runs up to its first await; without a connection it
\* returns [].  What is returned for the root call is what the view
\* presents at the top level.
GetRootItemsCall(parent, pend) ==
  /\ gri.pc = "idle"
  /\ IF conn
       THEN /\ gri' = [pc |-> "remoteExists",
                       certificates |->
                         [NoCertificates EXCEPT !.secureDebug = secureDebug],
                       server |-> None,
                       parent |-> parent,
                       since |-> changes]
            /\ UNCHANGED <<heap, roots, lastReturn>>
       ELSE /\ lastReturn' = [status |-> "returned", items |-> << >>,
                              parent |-> parent, since |-> changes,
                              repeat |-> Repeats(parent, lastReturn)]
            /\ IF parent = None
                 THEN /\ roots' = << >>
                      /\ heap' = Collect(heap, << >>, resolves, cmd, pend)
                 ELSE UNCHANGED <<heap, roots>>
            /\ UNCHANGED gri

\* The view handles fire(undefined): getChildren() calls getRootItems().
GriStart ==
  /\ pending # << >>
  /\ Head(pending) = None
  /\ pending' = Tail(pending)
  /\ GetRootItemsCall(None, pending')
  /\ UNCHANGED <<env, upd, header, resolves, cmd, calls, dirty>>
  /\ UNCHANGED registry

\* getChildren(item) called with a presented job item (issue = FALSE) or
\* with the issue item under it (issue = TRUE):
\* item?.getChildren?.() || this.getRootItems().  A job item with a problem
\* answers with its issue item; a job item without one answers undefined
\* and an issue item has no getChildren, and for both getRootItems() runs.
GetChildren(id, issue) ==
  /\ id \in Range(roots)
  /\ issue => heap[id].problem # None
  /\ LET parent == Some(IF issue THEN "issue" ELSE heap[id].type)
         own == IF issue THEN None ELSE ItemGetChildren(heap[id])
     IN IF own # None
          THEN /\ lastReturn' = [status |-> "returned",
                                 items |-> [i \in DOMAIN own[1] |-> "issue"],
                                 parent |-> parent, since |-> changes,
                                 repeat |-> FALSE]
               /\ UNCHANGED <<heap, roots, gri>>
          ELSE GetRootItemsCall(parent, pending)
  /\ UNCHANGED <<env, pending, upd, header, resolves, cmd, calls, dirty>>
  /\ UNCHANGED registry

\* remoteServerCertificateExists(connection) resolved.
GriRemoteExists ==
  /\ gri.pc = "remoteExists"
  /\ gri' = [gri EXCEPT !.pc = IF remoteCert # None THEN "readRemote"
                                ELSE "serverJob"]
  /\ UNCHANGED <<env, heap, roots, pending, lastReturn, upd, header,
                 resolves, cmd, calls, dirty>>
  /\ UNCHANGED registry

\* readRemoteCertificate(connection) resolved; localClientCertExists is
\* called only when secureDebug is set.
GriReadRemote ==
  /\ gri.pc = "readRemote"
  /\ gri' = [gri EXCEPT
               !.certificates.remoteCertificate = Some(ReadRemoteCertificate),
               !.pc = IF gri.certificates.secureDebug THEN "localExists"
                      ELSE "serverJob"]
  /\ UNCHANGED <<env, heap, roots, pending, lastReturn, upd, header,
                 resolves, cmd, calls, dirty>>
  /\ UNCHANGED registry

\* localClientCertExists(connection) made its check.
GriLocalExists ==
  /\ gri.pc = "localExists"
  /\ gri' = [gri EXCEPT !.pc = IF localCert # None THEN "readLocal"
                                ELSE "serverJob"]
  /\ UNCHANGED <<env, heap, roots, pending, lastReturn, upd, header,
                 resolves, cmd, calls, dirty>>
  /\ UNCHANGED registry

\* readFileSync(getLocalCertPath(connection)) after the check said the
\* file exists: it throws when the file is not there any more, and the
\* exception rejects the getRootItems call.
GriReadLocal ==
  /\ gri.pc = "readLocal"
  /\ IF localCert # None
       THEN /\ gri' = [gri EXCEPT !.certificates.localCertificate = localCert,
                                  !.pc = "serverJob"]
            /\ UNCHANGED lastReturn
       ELSE /\ gri' = GriIdle
            /\ lastReturn' = [status |-> "rejected", items |-> << >>,
                              parent |-> gri.parent, since |-> gri.since,
                              repeat |-> FALSE]
  /\ UNCHANGED <<env, heap, roots, pending, upd, header, resolves, cmd,
                 calls, dirty>>
  /\ UNCHANGED registry

\* Variant: the job lookup is skipped while a running server item is
\* presented.
GriServerJobSkippingPresented ==
  /\ gri.pc = "serverJob"
  /\ gri' = [gri EXCEPT
               !.server = Some(DebugJobItem("server",
                   IF \E id \in Range(roots) :
                        heap[id].type = "server" /\ heap[id].debugJob # None
                     THEN None ELSE GetDebugJob("server"),
                   None)),
               !.pc = "serviceJob"]
  /\ UNCHANGED <<env, heap, roots, pending, lastReturn, upd, header,
                 resolves, cmd, calls, dirty>>
  /\ UNCHANGED registry

\* Variant: the server item is given the certificates too.
GriServerJobWithCertificates ==
  /\ gri.pc = "serverJob"
  /\ gri' = [gri EXCEPT
               !.server = Some(DebugJobItem("server", GetDebugJob("server"),
                                            Some(gri.certificates))),
               !.pc = "serviceJob"]
  /\ UNCHANGED <<env, heap, roots, pending, lastReturn, upd, header,
                 resolves, cmd, calls, dirty>>
  /\ UNCHANGED registry

\* getDebugServerJob() resolved: the server item is built.
GriServerJob ==
  /\ gri.pc = "serverJob"
  /\ gri' = [gri EXCEPT
               !.server = Some(DebugJobItem("server", GetDebugJob("server"),
                                            None)),
               !.pc = "serviceJob"]
  /\ UNCHANGED <<env, heap, roots, pending, lastReturn, upd, header,
                 resolves, cmd, calls, dirty>>
  /\ UNCHANGED registry

\* getDebugServiceJob() resolved: the service item is built and both items
\* are returned to the view, which presents them at the top level when
\* they answer the root call.
GriServiceJob ==
  /\ gri.pc = "serviceJob"
  /\ IF gri.parent = None
       THEN LET kept == Collect(heap, << >>, resolves, cmd, pending)
                free == Ids \ DOMAIN kept
            IN /\ Cardinality(free) >= 2
               /\ LET a == MinOf(free)
                      b == MinOf(free \ {a})
                      service == DebugJobItem("service",
                                              GetDebugJob("service"),
                                              Some(gri.certificates))
                  IN /\ heap' = kept @@ (a :> gri.server[1]) @@ (b :> service)
                     /\ roots' = <<a, b>>
       ELSE UNCHANGED <<heap, roots>>
  /\ lastReturn' = [status |-> "returned", items |-> <<"server", "service">>,
                    parent |-> gri.parent, since |-> gri.since,
                    repeat |-> Repeats(gri.parent, lastReturn)]
  /\ gri' = GriIdle
  /\ UNCHANGED <<env, pending, upd, header, resolves, cmd, calls, dirty>>
  /\ UNCHANGED registry

\* The view handles fire(item): getTreeItem(item) returns the same object,
\* and getChildren(item) of an expanded item rebuilds its issue child from
\* the problem stored in the object.  No remote state is read.
ScopedRefresh ==
  /\ pending # << >>
  /\ Head(pending) # None
  /\ pending' = Tail(pending)
  /\ heap' = Collect(heap, roots, resolves, cmd, pending')
  /\ UNCHANGED <<env, roots, gri, lastReturn, upd, header, resolves, cmd,
                 calls, dirty>>
  /\ UNCHANGED registry

\* ----------------------------------------------------- ComponentManager
ComponentState == {"NotChecked", "NotInstalled", "Installed", "Error"}

ComponentIds == {"GetNewLibl"}

\* new GetNewLibl(connection): ComponentT starts NotChecked; `pc` is where
\* the checkState() call on the object stands.
ComponentT == [state |-> "NotChecked", pc |-> "checkState"]

\* component.getState()
GetState(c) == components[c].state

\* ComponentManager.startup(connection), up to its await: a new component
\* object replaces the one the manager held.
Startup ==
  /\ conn
  /\ Len(components) < MaxStartups
  /\ components' = Append(components, ComponentT)
  /\ manager' = [manager EXCEPT !.GetNewLibl = Some(Len(components) + 1)]
  /\ UNCHANGED <<env, view, upd, header, resolves, cmd, calls, dirty,
                 lastGet>>

\* checkState() of a component object resolved; it leaves the state it
\* found in the object.
CheckStateResolved(c, state) ==
  /\ c \in DOMAIN components
  /\ components[c].pc = "checkState"
  /\ state \in ComponentState \ {"NotChecked"}
  /\ components' = [components EXCEPT ![c] = [state |-> state, pc |-> "done"]]
  /\ UNCHANGED <<env, view, upd, header, resolves, cmd, calls, dirty,
                 manager, lastGet>>

\* ComponentManager.get(id): this[id].getState() is evaluated on whatever
\* the field holds, and on undefined the property access raises a
\* TypeError.
Get(id) ==
  /\ LET component == manager[id] IN
       lastGet' =
         IF component = None
           THEN [outcome |-> "TypeError", component |-> None, state |-> None]
         ELSE IF GetState(component[1]) = "Installed"
           THEN [outcome |-> "returned", component |-> component,
                 state |-> Some(GetState(component[1]))]
         ELSE [outcome |-> "undefined", component |-> None,
               state |-> Some(GetState(component[1]))]
  /\ UNCHANGED <<env, view, upd, header, resolves, cmd, calls, dirty,
                 manager, components>>

\* ------------------------------------------------------ resolveTreeItem
\* readActiveJob(content, debugJob) / readJVMInfo(content, debugJob): a row
\* while the job is active, nothing once it has gone.
ReadActiveJob(kind) ==
  IF (IF kind = "server" THEN serverJob ELSE serviceJob)
    THEN Some("activeJob") ELSE None

ReadJVMInfo(kind) ==
  IF (IF kind = "server" THEN serverJob ELSE serviceJob)
    THEN Some("jvmJob") ELSE None

\* `listening.on.port${ports.length === 1 ? '' : 's'}`
PortsHeader(debugJob) ==
  IF Len(debugJob.ports) = 1 THEN "listening.on.port" ELSE "listening.on.ports"

\* Variant: the guard without the test of the tooltip.
ResolveGuardIgnoringTooltip(content, element) ==
  content /\ element.debugJob # None

\* content && element.tooltip === undefined && element.debugJob
ResolveGuard(content, element) ==
  content /\ element.tooltip = None /\ element.debugJob # None

\* resolveTreeItem(item, element) up to its first await: when the guard
\* holds the tooltip is set and readActiveJob is called; otherwise the call
\* returns undefined at once.
ResolveStart(id, content) ==
  /\ id \in Range(roots)
  /\ IF ResolveGuard(content, heap[id])
       THEN /\ Len(resolves) < MaxResolves
            /\ heap' = [heap EXCEPT
                 ![id].tooltip = Some(<<PortsHeader(heap[id].debugJob[1])>>),
                 ![id].activeJobCalls = @ + 1]
            /\ resolves' = Append(resolves,
                                  [element |-> id, pc |-> "activeJob"])
       ELSE /\ heap' = [heap EXCEPT
                 ![id].askedAgain = @ \/ heap[id].activeJobCalls > 0]
            /\ UNCHANGED resolves
  /\ UNCHANGED <<env, roots, pending, gri, lastReturn, upd, header, cmd,
                 calls, dirty>>
  /\ UNCHANGED registry

\* Variant: readJVMInfo is called for the server item as well.
ResolveActiveJobJvmForAll(i) ==
  /\ i \in DOMAIN resolves
  /\ resolves[i].pc = "activeJob"
  /\ LET id == resolves[i].element
         activeJob == ReadActiveJob(heap[id].type)
     IN IF activeJob # None
          THEN /\ heap' = [heap EXCEPT
                     ![id].tooltip = Some(@[1] \o <<activeJob[1], "\n\n">>),
                     ![id].activeJob = "found",
                     ![id].jvmCalls = @ + 1]
               /\ resolves' = [resolves EXCEPT ![i].pc = "jvm"]
          ELSE /\ resolves' = RemoveAt(resolves, i)
               /\ heap' = Collect([heap EXCEPT ![id].activeJob = "nothing"],
                                  roots, resolves', cmd, pending)
  /\ UNCHANGED <<env, roots, pending, gri, lastReturn, upd, header, cmd,
                 calls, dirty>>
  /\ UNCHANGED registry

\* Variant: whatever readActiveJob returned is appended to the tooltip.
ResolveActiveJobAppendingAlways(i) ==
  /\ i \in DOMAIN resolves
  /\ resolves[i].pc = "activeJob"
  /\ LET id == resolves[i].element
         activeJob == ReadActiveJob(heap[id].type)
         text == IF activeJob # None THEN activeJob[1] ELSE "undefined"
     IN /\ resolves' = RemoveAt(resolves, i)
        /\ heap' = Collect(
              [heap EXCEPT
                 ![id].tooltip = Some(@[1] \o <<text>>),
                 ![id].activeJob = IF activeJob # None THEN "found"
                                   ELSE "nothing"],
              roots, resolves', cmd, pending)
  /\ UNCHANGED <<env, roots, pending, gri, lastReturn, upd, header, cmd,
                 calls, dirty>>
  /\ UNCHANGED registry

\* readActiveJob resolved: its row is appended; for the service item
\* readJVMInfo is called next.
ResolveActiveJob(i) ==
  /\ i \in DOMAIN resolves
  /\ resolves[i].pc = "activeJob"
  /\ LET id == resolves[i].element
         activeJob == ReadActiveJob(heap[id].type)
     IN IF activeJob # None
          THEN IF heap[id].type = "service"
                 THEN /\ heap' = [heap EXCEPT
                            ![id].tooltip =
                               Some(@[1] \o <<activeJob[1], "\n\n">>),
                            ![id].activeJob = "found",
                            ![id].jvmCalls = @ + 1]
                      /\ resolves' = [resolves EXCEPT ![i].pc = "jvm"]
                 ELSE /\ resolves' = RemoveAt(resolves, i)
                      /\ heap' = Collect(
                            [heap EXCEPT
                               ![id].tooltip = Some(@[1] \o <<activeJob[1]>>),
                               ![id].activeJob = "found"],
                            roots, resolves', cmd, pending)
          ELSE /\ resolves' = RemoveAt(resolves, i)
               /\ heap' = Collect([heap EXCEPT ![id].activeJob = "nothing"],
                                  roots, resolves', cmd, pending)
  /\ UNCHANGED <<env, roots, pending, gri, lastReturn, upd, header, cmd,
                 calls, dirty>>
  /\ UNCHANGED registry

\* readJVMInfo resolved: its row, if any, is appended.
ResolveJvm(i) ==
  /\ i \in DOMAIN resolves
  /\ resolves[i].pc = "jvm"
  /\ LET id == resolves[i].element
         jvmJob == ReadJVMInfo(heap[id].type)
     IN /\ resolves' = RemoveAt(resolves, i)
        /\ heap' = Collect(
              IF jvmJob # None
                THEN [heap EXCEPT ![id].tooltip = Some(@[1] \o <<jvmJob[1]>>)]
                ELSE heap,
              roots, resolves', cmd, pending)
  /\ UNCHANGED <<env, roots, pending, gri, lastReturn, upd, header, cmd,
                 calls, dirty>>
  /\ UNCHANGED registry

\* ------------------------------------------------------ lifecycle commands
CommandKinds == {"start", "stop", "restart"}

\* The remote job after startFunction / stopFunction resolved with `ok`.
JobsAfter(kind, verb, ok) ==
  [server |-> IF ok /\ kind = "server" THEN verb = "start" ELSE serverJob,
   service |-> IF ok /\ kind = "service" THEN verb = "start" ELSE serviceJob]

\* code-for-ibmi.debug.job.start / .stop / .restart invoked on an item:
\* start and restart call item.start(), stop calls item.stop().
CmdInvoke(kind, id) ==
  /\ id \in Range(roots)
  /\ (cmd # None => cmd[1].pc = "done")
  /\ cmd' = Some([kind |-> kind, item |-> id,
                  pc |-> IF kind = "stop" THEN "stopping" ELSE "starting"])
  /\ calls' = <<IF kind = "stop" THEN "stop" ELSE "start">>
  /\ heap' = Collect(heap, roots, resolves, cmd', pending)
  /\ UNCHANGED <<env, roots, pending, gri, lastReturn, upd, header,
                 resolves, dirty>>
  /\ UNCHANGED registry

\* Variant: restart goes on to item.stop() whatever item.start() returned.
CmdStartResolvedThenStop(ok) ==
  /\ cmd # None
  /\ cmd[1].pc = "starting"
  /\ LET type == heap[cmd[1].item].type
         jobs == JobsAfter(type, "start", ok)
     IN /\ serverJob' = jobs.server
        /\ serviceJob' = jobs.service
        /\ dirty' = (IF <<jobs.server, jobs.service>> # <<serverJob, serviceJob>>
                       THEN dirty \cup {type} ELSE dirty)
                     \cup (IF cmd[1].kind = "restart" THEN {}
                           ELSE {"command"})
  /\ IF cmd[1].kind = "restart"
       THEN /\ cmd' = Some([cmd[1] EXCEPT !.pc = "stopping"])
            /\ calls' = calls \o <<IF ok THEN "start:true" ELSE "start:false",
                                   "stop">>
       ELSE /\ cmd' = Some([cmd[1] EXCEPT !.pc = "done"])
            /\ calls' = Append(calls, IF ok THEN "start:true"
                                      ELSE "start:false")
  /\ UNCHANGED <<conn, secureDebug, remoteCert, localCert, changes, view,
                 upd, header, resolves>>
  /\ UNCHANGED registry

\* item.start() resolved with `ok`; restart goes on to item.stop() only
\* when `ok` is true.
CmdStartResolved(ok) ==
  /\ cmd # None
  /\ cmd[1].pc = "starting"
  /\ LET type == heap[cmd[1].item].type
         jobs == JobsAfter(type, "start", ok)
     IN /\ serverJob' = jobs.server
        /\ serviceJob' = jobs.service
        /\ dirty' = (IF <<jobs.server, jobs.service>> # <<serverJob, serviceJob>>
                       THEN dirty \cup {type} ELSE dirty)
                     \cup (IF cmd[1].kind = "restart" /\ ok THEN {}
                           ELSE {"command"})
  /\ IF cmd[1].kind = "restart" /\ ok
       THEN /\ cmd' = Some([cmd[1] EXCEPT !.pc = "stopping"])
            /\ calls' = calls \o <<"start:true", "stop">>
       ELSE /\ cmd' = Some([cmd[1] EXCEPT !.pc = "done"])
            /\ calls' = Append(calls, IF ok THEN "start:true"
                                      ELSE "start:false")
  /\ UNCHANGED <<conn, secureDebug, remoteCert, localCert, changes, view,
                 upd, header, resolves>>
  /\ UNCHANGED registry

\* item.stop() resolved with `ok`.
CmdStopResolved(ok) ==
  /\ cmd # None
  /\ cmd[1].pc = "stopping"
  /\ LET type == heap[cmd[1].item].type
         jobs == JobsAfter(type, "stop", ok)
     IN /\ serverJob' = jobs.server
        /\ serviceJob' = jobs.service
        /\ dirty' = (IF <<jobs.server, jobs.service>> # <<serverJob, serviceJob>>
                       THEN dirty \cup {type} ELSE dirty) \cup {"command"}
  /\ cmd' = Some([cmd[1] EXCEPT !.pc = "done"])
  /\ calls' = Append(calls, IF ok THEN "stop:true" ELSE "stop:false")
  /\ UNCHANGED <<conn, secureDebug, remoteCert, localCert, changes, view,
                 upd, header, resolves>>
  /\ UNCHANGED registry

\* --------------------------------------------------------- specifications
\* The configuration, the certificates and the jobs change.
RemoteChanges ==
  \/ SetSecureDebug
  \/ \E c \in {None} \cup {Some(x) : x \in RemoteTexts} : RemoteCertChanges(c)
  \/ \E c \in {None} \cup {Some(x) : x \in LocalTexts} : LocalCertChanges(c)
  \/ ServerJobChanges
  \/ ServiceJobChanges

\* The connection and the remote state change.
Environment ==
  \/ Connected
  \/ Disconnected
  \/ RemoteChanges

\* The view asks for the root items and presents them.
Populate ==
  \/ GriStart
  \/ GriRemoteExists
  \/ GriReadRemote
  \/ GriLocalExists
  \/ GriReadLocal
  \/ GriServerJob
  \/ GriServiceJob

\* A refresh of the whole tree, from the command to the presented items.
WholeRefresh ==
  \/ RefreshCommand
  \/ \E i \in 1..MaxHandlers : UpdDetails(i)
  \/ \E i \in 1..MaxHandlers : UpdEngine(i)
  \/ Populate

\* The tree view and its refreshes while the remote state changes.
Next ==
  \/ Environment
  \/ WholeRefresh
  \/ \E id \in Ids : RefreshItemCommand(id)
  \/ ScopedRefresh

Spec == Init /\ [][Next]_vars

\* The view is populated while the remote state changes.
NextPopulate ==
  \/ RemoteChanges
  \/ Populate

SpecPopulate == Init /\ [][NextPopulate]_vars

\* Tooltip enrichment of the items the view was populated with, while the
\* jobs come and go.
NextResolve ==
  \/ ServerJobChanges
  \/ ServiceJobChanges
  \/ Populate
  \/ \E id \in Ids, content \in BOOLEAN : ResolveStart(id, content)
  \/ \E i \in 1..MaxResolves : ResolveActiveJob(i)
  \/ \E i \in 1..MaxResolves : ResolveJvm(i)

\* A connected session.
InitResolve == Init /\ conn

SpecResolve == InitResolve /\ [][NextResolve]_vars

\* The lifecycle commands on the presented items.
NextCmd ==
  \/ WholeRefresh
  \/ \E kind \in CommandKinds, id \in Ids : CmdInvoke(kind, id)
  \/ \E ok \in BOOLEAN : CmdStartResolved(ok)
  \/ \E ok \in BOOLEAN : CmdStopResolved(ok)

\* A connected session with secure debugging and both certificates in
\* place, the jobs active or not.
InitCmd ==
  /\ Init
  /\ conn
  /\ secureDebug
  /\ remoteCert = Some("X")
  /\ localCert = Some("X")

SpecCmd == InitCmd /\ [][NextCmd]_vars

\* The lifecycle commands on the items the view was populated with, no
\* whole refresh being asked for meanwhile.
NextRestart ==
  \/ Populate
  \/ \E kind \in CommandKinds, id \in Ids : CmdInvoke(kind, id)
  \/ \E ok \in BOOLEAN : CmdStartResolved(ok)
  \/ \E ok \in BOOLEAN : CmdStopResolved(ok)

SpecRestart == InitCmd /\ [][NextRestart]_vars

\* Whole refreshes, one after the other, from every initial connection,
\* configuration and certificates, while the jobs come and go.
NextRefresh ==
  \/ ServerJobChanges
  \/ ServiceJobChanges
  \/ WholeRefresh

SpecRefresh == Init /\ [][NextRefresh]_vars

\* getChildren called with the presented items.
NextChildren ==
  \/ RemoteChanges
  \/ Populate
  \/ \E id \in Ids, issue \in BOOLEAN : GetChildren(id, issue)

SpecChildren == Init /\ [][NextChildren]_vars

\* The component registry: startups, their state checks and lookups.
NextComponents ==
  \/ Startup
  \/ \E c \in 1..MaxStartups, state \in ComponentState :
       CheckStateResolved(c, state)
  \/ \E id \in ComponentIds : Get(id)

SpecComponents == Init /\ [][NextComponents]_vars

\* ================================================================ claims
\* The trust outcome named by an optional CertificateIssue.
OutcomeOf(problem) ==
  IF problem = None THEN "Ok"
  ELSE IF problem[1].context = "noremote" THEN "NoRemoteCertificate"
  ELSE IF problem[1].context = "nolocal" THEN "NoLocalCertificate"
  ELSE "CertificateMismatch"

\* The trust outcome of an item, as its constructor derived it.
Trust(item) == OutcomeOf(item.problem)

\* What the item shows: not running when described as offline, blocked when
\* it carries the warning icon and is expanded over an issue.
ShownRunning(item) == item.description # "offline"
ShownBlocked(item) == item.icon = "warning" /\ item.state = "Expanded"

\* The node an item presents: running, blocked, job and trust outcome.
SessionNode(item) ==
  [kind |-> item.type, running |-> ShownRunning(item),
   blocked |-> ShownBlocked(item), job |-> item.debugJob,
   trust |-> Trust(item)]

Items(type) == {id \in DOMAIN heap : heap[id].type = type}

\* The precedence of the trust evaluation, on absent/present certificates.
PrecedenceOutcome(c) ==
  IF c.remoteCertificate = None THEN "NoRemoteCertificate"
  ELSE IF ~c.secureDebug THEN "Ok"
  ELSE IF c.localCertificate = None THEN "NoLocalCertificate"
  ELSE IF c.remoteCertificate # c.localCertificate THEN "CertificateMismatch"
  ELSE "Ok"

\* C1: every service item has the trust outcome that the precedence
\* NoRemoteCertificate (remote absent) > Ok (secureDebug false) >
\* NoLocalCertificate (local absent) > CertificateMismatch (values differ) >
\* Ok gives for the CertificateSet it was built from.
C1_TrustPrecedence ==
  \A id \in Items("service") :
    Trust(heap[id]) = PrecedenceOutcome(heap[id].certificates[1])

\* C2: a service item is shown running exactly when it has a job and its
\* trust outcome is not NoRemoteCertificate; with a job and no remote
\* certificate it is described as offline and blocked.
C2_RunningNeedsRemoteCertificate ==
  \A id \in Items("service") :
    LET item == heap[id] IN
      /\ ShownRunning(item) <=>
           (item.debugJob # None /\ Trust(item) # "NoRemoteCertificate")
      /\ (item.debugJob # None /\ Trust(item) = "NoRemoteCertificate")
           => (item.description = "offline" /\ ShownBlocked(item))

C2_Witness ==
  \E id \in Items("service") :
    /\ heap[id].debugJob # None
    /\ Trust(heap[id]) = "NoRemoteCertificate"
    /\ ~ShownRunning(heap[id])

\* C7: a service item is blocked exactly when the trust outcome of its
\* certificates is not Ok; getChildren() then returns exactly one issue item
\* whose context names the outcome, and no issue item when the outcome is Ok.
C7_BlockedIffNotOk ==
  \A id \in Items("service") :
    LET item == heap[id]
        problem == Problem(item.certificates)
        children == ItemGetChildren(item)
    IN /\ ShownBlocked(item) <=> OutcomeOf(problem) # "Ok"
       /\ IF OutcomeOf(problem) # "Ok"
            THEN /\ children # None
                 /\ Len(children[1]) = 1
                 /\ children[1][1].contextValue =
                      "certificateIssue_" \o problem[1].context
                 /\ problem[1].context \in {"noremote", "nolocal", "dontmatch"}
            ELSE children = None

C7_Witness ==
  \E id \in Items("service") :
    /\ id \in Range(roots)
    /\ Trust(heap[id]) = "CertificateMismatch"
    /\ ShownBlocked(heap[id])
    /\ ItemGetChildren(heap[id]) # None

\* C8: the server item does not depend on the certificate state: whatever
\* secureDebug and the two certificates are, it is shown running exactly
\* when the server job was found, it is never blocked and has no issue child.
C8_ServerIgnoresCertificates ==
  \A id \in Items("server") :
    LET item == heap[id] IN
      /\ ShownRunning(item) <=> item.debugJob # None
      /\ ~ShownBlocked(item)
      /\ item.icon # "warning"
      /\ Trust(item) = "Ok"
      /\ ItemGetChildren(item) = None

C8_Witness ==
  \E id \in Items("server"), other \in Items("service") :
    /\ Range(roots) = {id, other}
    /\ heap[id].debugJob # None
    /\ ShownRunning(heap[id])
    /\ Trust(heap[other]) = "NoRemoteCertificate"

\* The certificates getRootItems derives from the present remote state.
CurrentCertificates ==
  [secureDebug |-> secureDebug,
   remoteCertificate |->
     IF remoteCert # None THEN Some(ReadRemoteCertificate) ELSE None,
   localCertificate |->
     IF remoteCert # None /\ secureDebug THEN localCert ELSE None]

\* The item of the given kind as built from the present remote state.
CurrentItem(type) ==
  DebugJobItem(type, GetDebugJob(type),
               IF type = "service" THEN Some(CurrentCertificates) ELSE None)

\* C5: once every refresh request has been handled, an item for which a
\* refresh was requested after the last change of its remote state (whole
\* tree or that item alone) is presented as the present remote state gives it.
C5_RefreshRecomputes ==
  (conn /\ pending = << >> /\ gri.pc = "idle" /\ upd = << >>
        /\ lastReturn.status = "returned")
    => \A i \in DOMAIN roots :
         heap[roots[i]].type \notin dirty
           => SessionNode(heap[roots[i]])
                = SessionNode(CurrentItem(heap[roots[i]].type))

\* C6: a getRootItems call in which the certificate read of the service item
\* failed still produces the server item.
C6_FailureIsolated ==
  lastReturn.status = "rejected" => "server" \in Range(lastReturn.items)

\* Positions of an entry in the log of start()/stop() calls and results.
Positions(entry) == {i \in DOMAIN calls : calls[i] = entry}

\* C3: a restart calls start() exactly once and first, and waits for its
\* result; stop() is called at most once, and only after start() has
\* resolved with true; after start() resolved with false the command is
\* over and stop() has not been called.
C3_RestartStopsOnlyAfterStart ==
  (cmd # None /\ cmd[1].kind = "restart") =>
    /\ Positions("start") = {1}
    /\ Cardinality(Positions("stop")) <= 1
    /\ \A i \in Positions("stop") : i = 3 /\ calls[2] = "start:true"
    /\ cmd[1].pc = "starting" <=> calls = <<"start">>
    /\ Positions("start:false") # {} =>
         (Positions("stop") = {} /\ cmd[1].pc = "done")
    /\ Positions("start:true") # {} => Positions("stop") = {3}

C3_Witness ==
  /\ cmd # None
  /\ cmd[1].kind = "restart"
  /\ cmd[1].pc = "done"
  /\ calls = <<"start", "start:false">>

\* C4: when a start, stop or restart command is over, succeeded or failed,
\* a refresh of the item it ran on (or of the whole tree) has been requested.
C4_RefreshAfterCommand ==
  (cmd # None /\ cmd[1].pc = "done") => "command" \notin dirty

\* C9: readActiveJob is called at most once for an item object, whatever
\* the number and interleaving of resolveTreeItem calls on it, and never
\* for an item without a job.
C9_EnrichedAtMostOnce ==
  \A id \in DOMAIN heap :
    /\ heap[id].activeJobCalls <= 1
    /\ heap[id].debugJob = None => heap[id].activeJobCalls = 0
    /\ Cardinality({i \in DOMAIN resolves : resolves[i].element = id}) <= 1

C9_Witness ==
  \E i \in DOMAIN resolves :
    /\ resolves[i].pc = "activeJob"
    /\ heap[resolves[i].element].askedAgain
    /\ heap[resolves[i].element].activeJobCalls = 1

\* C10: when readActiveJob returned nothing for an item, its resolution is
\* over, the tooltip holds the ports line and no job detail, readJVMInfo
\* was not called, and the item presents the node it was built with.
C10_NothingToAttach ==
  \A id \in DOMAIN heap :
    LET item == heap[id] IN
      item.activeJob = "nothing" =>
        /\ item.tooltip = Some(<<PortsHeader(item.debugJob[1])>>)
        /\ item.jvmCalls = 0
        /\ \A i \in DOMAIN resolves : resolves[i].element # id
        /\ SessionNode(item)
             = SessionNode(DebugJobItem(item.type, item.debugJob,
                                        item.certificates))

C10_Witness ==
  \E id \in Range(roots) :
    /\ heap[id].activeJob = "nothing"
    /\ heap[id].activeJobCalls = 1
    /\ ShownRunning(heap[id])

\* C11: a getRootItems call in which the local certificate passed the
\* existence check and its read then failed returns both items, the service
\* item classified NoLocalCertificate.
C11_UnreadableLocalIsNoLocal ==
  lastReturn.status = "rejected" =>
    /\ lastReturn.items = <<"server", "service">>
    /\ Len(roots) = 2
    /\ Trust(heap[roots[2]]) = "NoLocalCertificate"

\* The presentation class of an item, from the certificates and the job it
\* was built with.
PresentationClass(item) ==
  LET trust == OutcomeOf(Problem(item.certificates)) IN
    IF trust = "NoRemoteCertificate" THEN "blockedCannotRun"
    ELSE IF trust # "Ok" THEN "blockedCanRun"
    ELSE IF item.debugJob # None THEN "runningOk"
    ELSE "notRunning"

\* C13: every item falls in one presentation class, by the precedence
\* blocked and cannot run (warning icon, failed colour, context value without
\* _on/_off) > blocked and can run (warning icon, queued colour) > running
\* and Ok (pass icon, passed colour, _on) > not running (error icon, failed
\* colour, _off); a blocked item never carries the pass or the error icon.
C13_PresentationPrecedence ==
  \A id \in DOMAIN heap :
    LET item == heap[id]
        class == PresentationClass(item)
        base == "debugJob_" \o item.type
    IN /\ class = "blockedCannotRun" =>
            /\ item.icon = "warning"
            /\ item.color = "testing.iconFailed"
            /\ item.contextValue = base
       /\ class = "blockedCanRun" =>
            /\ item.icon = "warning"
            /\ item.color = "testing.iconQueued"
       /\ class = "runningOk" =>
            /\ item.icon = "pass"
            /\ item.color = "testing.iconPassed"
            /\ item.contextValue = base \o "_on"
       /\ class = "notRunning" =>
            /\ item.icon = "error"
            /\ item.color = "testing.iconFailed"
            /\ item.contextValue = base \o "_off"
       /\ item.problem # None => item.icon \notin {"pass", "error"}

C13_Witness ==
  \E id \in Range(roots) :
    /\ PresentationClass(heap[id]) = "blockedCanRun"
    /\ heap[id].debugJob # None
    /\ ShownRunning(heap[id])
    /\ heap[id].icon = "warning"

\* C14: readJVMInfo is called only for the service item, at most once, and
\* only after the readActiveJob query of that item returned a row; it is
\* never called for the server item or when readActiveJob returned nothing.
C14_JvmOnlyForEnrichedService ==
  \A id \in DOMAIN heap :
    LET item == heap[id] IN
      /\ item.jvmCalls <= 1
      /\ item.jvmCalls > 0 => (item.type = "service" /\ item.activeJob = "found")
      /\ item.type = "server" => item.jvmCalls = 0
      /\ item.activeJob \in {"unread", "nothing"} => item.jvmCalls = 0
      /\ \A i \in DOMAIN resolves :
           (resolves[i].element = id /\ resolves[i].pc = "jvm")
             => (item.type = "service" /\ item.activeJob = "found")

C14_Witness ==
  /\ \E id \in Items("service") : heap[id].jvmCalls = 1
  /\ \E id \in Items("server") :
       heap[id].activeJob = "found" /\ heap[id].jvmCalls = 0

\* C16: a service item is classified NoRemoteCertificate exactly when the
\* existence check of the remote certificate returned false (no text was
\* read for it), whatever text the read returned; and a local certificate
\* was read only with secureDebug set and the remote certificate existing.
C16_NoRemoteIffNotExisting ==
  \A id \in Items("service") :
    LET c == heap[id].certificates[1] IN
      /\ Trust(heap[id]) = "NoRemoteCertificate" <=> c.remoteCertificate = None
      /\ c.localCertificate # None =>
           (c.secureDebug /\ c.remoteCertificate # None)

\* C15: whenever no updateDebugBrowser run is in flight, the header agrees
\* with the connection: without a connection the title is the bare title
\* and the description is empty.
C15_HeaderAgreesWhenQuiet ==
  (upd = << >> /\ ~conn) => header = [title |-> title, description |-> ""]

\* C12: a whole refresh that returns after an earlier whole refresh
\* returned, with no change of the connection, the configuration, the
\* certificates or the jobs since the earlier one started, presents nodes
\* structurally equal to the earlier ones: same kinds in the same order,
\* same running flag, blocked flag, job and trust outcome.
C12_RepeatedRefreshIsStable ==
  [][(/\ lastReturn' # lastReturn
      /\ lastReturn'.status = "returned"
      /\ lastReturn'.parent = None
      /\ lastReturn.status = "returned"
      /\ lastReturn.parent = None
      /\ lastReturn.since = changes')
     => /\ lastReturn'.items = lastReturn.items
        /\ Len(roots') = Len(roots)
        /\ \A i \in DOMAIN roots :
             SessionNode(heap'[roots'[i]]) = SessionNode(heap[roots[i]])]_vars

\* A second whole refresh has returned both items with nothing changed since
\* the first one started, the service running and the server not.
C12_Witness ==
  /\ lastReturn.status = "returned"
  /\ lastReturn.items = <<"server", "service">>
  /\ lastReturn.repeat
  /\ Len(roots) = 2
  /\ ~ShownRunning(heap[roots[1]])
  /\ ShownRunning(heap[roots[2]])
  /\ ShownBlocked(heap[roots[2]])

\* C17: getChildren(item) answers with the own children of the item only: no
\* getRootItems call runs on behalf of an item, and what is returned for an
\* item holds no root item (for a job item without a problem and for an
\* issue item it is empty).
C17_OnlyOwnChildren ==
  /\ gri.pc # "idle" => gri.parent = None
  /\ lastReturn.parent # None =>
       /\ Range(lastReturn.items) \subseteq {"issue"}
       /\ lastReturn.parent = Some("issue") => lastReturn.items = << >>

\* C18: a ComponentManager.get call never raises, and it returns the
\* component exactly when the state the component reports is Installed; this
\* from construction on, before startup and while checkState is awaited.
C18_GetNeverRaises ==
  /\ lastGet.outcome # "TypeError"
  /\ lastGet.outcome = "returned" <=> lastGet.state = Some("Installed")
  /\ lastGet.outcome = "returned" => lastGet.component = manager.GetNewLibl

====
